---- MODULE Spec2Model ----
(***************************************************************************)
(* Cache replacement policies of the simulator: the LRU engine (a recency  *)
(* list of nodes plus a hash from way to list node), the PseudoLRU engine  *)
(* (a bit tree stored in a flat vector) and the factory                    *)
(* create_cache_replacement.  One engine object is followed, from the     *)
(* factory call that constructs it.                                        *)
(***************************************************************************)
EXTENDS Integers, Sequences, FiniteSets, TLC

\* ------------------------------------------------------------------ bounds
\* Largest way count handed to the factory; also the largest small way argument.
MaxWays == 4
\* Longest recorded sequence of touch calls after a construction.
MaxTouches == 5
\* Width of std::size_t in the model (the arithmetic of ways - 1 wraps at 2^w).
SizeBits == 8

\* --------------------------------------------------------------- constants
\* enum Flags { Left = 0, Right = 1 }
Left == 0
Right == 1

SIZE_MAX == (2 ^ SizeBits) - 1

\* Policy names handed to the factory.
PolicyNames == {"LRU", "Pseudo-LRU", "pseudo-LRU", "lru", "FIFO", ""}

\* Way counts handed to the factory, and way arguments handed to the engine.
WaysArgs == 0 .. MaxWays
WayArgs == 0 .. MaxWays

\* No return value / no argument.
NoWay == -1

VARIABLES
    engine,     \* "none" | "LRU" | "PseudoLRU": the class of the live object
    ways,       \* the const member ways of the live object
    lru_list,   \* LRU: the list, front first, as a sequence of node identities
    node_val,   \* LRU: the value stored in each list node (NoWay: not a live node)
    lru_hash,   \* LRU: way -> node identity (the stored list iterator)
    nodes,      \* PseudoLRU: the vector of Flags, nodes[i] of the code is nodes[i+1]
    undefined,  \* the object was used in a way the language leaves undefined
    call,       \* the last call and what it returned or threw
    touchLog,   \* history: the touch calls since construction, while only touches
    phase,      \* history: "touches" | "judged" | "other"
    run,        \* history: the last operation that was not an update
    updRun,     \* history: the ways returned by the updates since `run`
    cleanU,     \* history: ways touched with no other way returned by update since
    cleanT,     \* history: ways touched with no other way touched since, by
                \* touch or by the touch that ends update
    beforeErase \* history: the list as it was before the set_to_erase( w) that
                \* was the last call, or the last call before a touch( w)

vars == << engine, ways, lru_list, node_val, lru_hash, nodes, undefined, call,
           touchLog, phase, run, updRun, cleanU, cleanT, beforeErase >>

\* ----------------------------------------------------------------- helpers
Range(s) == { s[i] : i \in 1 .. Len(s) }

\* The sequence s without its element at position i.
RemoveAt(s, i) == [ j \in 1 .. (Len(s) - 1) |-> IF j < i THEN s[j] ELSE s[j + 1] ]

\* The position of node identity n in list l (n is in l).
PosOf(l, n) == CHOOSE i \in 1 .. Len(l) : l[i] = n

\* std::list::splice( begin(), list, it): the node moves to the front, keeping
\* its identity; std::list::splice( end(), list, it): to the back.
SpliceToBegin(l, n) == << n >> \o RemoveAt(l, PosOf(l, n))
SpliceToEnd(l, n) == RemoveAt(l, PosOf(l, n)) \o << n >>

\* is_power_of_two( ways) of infra/macro.h: exactly one bit set.
RECURSIVE PopCount(_)
PopCount(n) == IF n = 0 THEN 0 ELSE (n % 2) + PopCount(n \div 2)
is_power_of_two(n) == PopCount(n) = 1

\* ------------------------------------------------------------------- LRU
\* The node identities a list of `w` ways can live in: one more than it holds,
\* so that the node update() inserts need not be the one it has just freed.
NodeIds(w) == 0 .. w

\* LRU::LRU: for i = 0 .. ways-1, push_front( i) and lru_hash.emplace( i, begin()).
\* Node i is the node allocated for way i.
LRU_ctor_list_push_back(w) == [ i \in 1 .. w |-> i - 1 ]

RECURSIVE LRU_ctor_list(_)
LRU_ctor_list(w) == IF w = 0 THEN << >> ELSE << w - 1 >> \o LRU_ctor_list(w - 1)

LRU_ctor_vals(w) == [ n \in 0 .. MaxWays |-> IF n < w THEN n ELSE NoWay ]
LRU_ctor_hash(w) == [ i \in 0 .. (w - 1) |-> i ]

LRU_touch_forgotten(l, h, way) == l

LRU_touch_to_end(l, h, way) == SpliceToEnd(l, h[way])

\* LRU::touch: splice the node lru_hash finds for `way` to the head of the list.
LRU_touch(l, h, way) == SpliceToBegin(l, h[way])

LRU_set_to_erase_to_begin(l, h, way) == SpliceToBegin(l, h[way])

\* LRU::set_to_erase: splice it to the end of the list.
LRU_set_to_erase(l, h, way) == SpliceToEnd(l, h[way])

\* LRU::update, first half: lru_elem = lru_list.back().
LRU_back(l, v) == v[l[Len(l)]]

LRU_pop_insert_no_pop(l, fresh) == << fresh >> \o l

LRU_pop_insert_at_end(l, fresh) == SubSeq(l, 1, Len(l) - 1) \o << fresh >>

\* LRU::update, pop_back() then insert( begin(), lru_elem) into node `fresh`.
LRU_pop_insert(l, fresh) == << fresh >> \o SubSeq(l, 1, Len(l) - 1)

LRU_refresh_skipped(h, elem, ptr) == h

\* LRU::update, lru_hash[ lru_elem] = ptr.
LRU_refresh(h, elem, ptr) == [ h EXCEPT ![elem] = ptr ]

\* ---------------------------------------------------------------- PseudoLRU
\* nodes[node] of the code.
NodeAt(ns, node) == ns[node + 1]

get_next_node_swapped(ns, node) ==
    node * 2 + (IF NodeAt(ns, node) = Left THEN 2 ELSE 1)

\* get_next_node
get_next_node(ns, node) == node * 2 + (IF NodeAt(ns, node) = Left THEN 1 ELSE 2)

get_direction_to_prev_node_swapped(node) == IF node % 2 # 0 THEN Right ELSE Left

\* get_direction_to_prev_node
get_direction_to_prev_node(node) == IF node % 2 # 0 THEN Left ELSE Right

reverse_node_set_right(ns, node) == [ ns EXCEPT ![node + 1] = Right ]

\* reverse_node
reverse_node(ns, node) ==
    [ ns EXCEPT ![node + 1] = (IF NodeAt(ns, node) = Left THEN Right ELSE Left) ]

\* PseudoLRU::touch, the loop from `node` up to the root.
RECURSIVE PLRU_climb(_, _)
PLRU_climb(ns, node) ==
    IF node = 0 THEN ns
    ELSE LET parent == (node - 1) \div 2
         IN  PLRU_climb(IF get_direction_to_prev_node(node) = NodeAt(ns, parent)
                           THEN reverse_node(ns, parent)
                           ELSE ns,
                        parent)

\* PseudoLRU::touch
PLRU_touch(ns, way) == PLRU_climb(ns, way + Len(ns))

\* PseudoLRU::update, the loop from `node` down to a leaf.
RECURSIVE PLRU_descend(_, _)
PLRU_descend(ns, node) ==
    IF node < Len(ns) THEN PLRU_descend(ns, get_next_node(ns, node)) ELSE node

\* PseudoLRU::update, the way it chooses.
PLRU_victim(ns) == PLRU_descend(ns, 0) - Len(ns)

PLRU_ctor_size_no_minus(w) == w % (2 ^ SizeBits)

\* PseudoLRU::PseudoLRU, the member initialiser nodes( ways - 1, Left): the
\* size it asks for, in size_t arithmetic.
PLRU_ctor_size(w) == (w - 1) % (2 ^ SizeBits)

\* The largest vector< Flags> the library builds (max_size()); asking for more
\* throws from the vector's constructor.
VectorMaxSize == SIZE_MAX \div 8

PLRU_ctor_nodes_right(w) == [ i \in 1 .. PLRU_ctor_size(w) |-> Right ]

PLRU_ctor_nodes(w) == [ i \in 1 .. PLRU_ctor_size(w) |-> Left ]

PLRU_update_nodes_untouched(ns) == ns

\* PseudoLRU::update, the touch( way) that ends it.
PLRU_update_nodes(ns) == PLRU_touch(ns, PLRU_victim(ns))

PLRU_set_to_erase_range_checked(ns, way) ==
    IF way > Len(ns)
       THEN [ nodes |-> ns, err |-> "none", msg |-> "" ]
       ELSE [ nodes |-> ns, err |-> "CacheReplacementException",
              msg |-> "PLRU does not support inverted access" ]

\* PseudoLRU::set_to_erase: throws whatever the way is; the vector is not used.
PLRU_set_to_erase(ns, way) ==
    [ nodes |-> ns, err |-> "CacheReplacementException",
      msg |-> "PLRU does not support inverted access" ]

\* ------------------------------------------------------------------ factory
PolicyOf_listed(name) ==
    IF name = "LRU" THEN "LRU"
    ELSE IF name \in { "Pseudo-LRU", "pseudo-LRU" } THEN "PseudoLRU"
    ELSE "none"

\* create_cache_replacement, the comparison of `name`: the class it constructs.
PolicyOf(name) ==
    IF name = "LRU" THEN "LRU"
    ELSE IF name = "Pseudo-LRU" THEN "PseudoLRU"
    ELSE "none"

\* The policy names the message of the factory's exception lists:
\* "... supported polices are:\nLRU\npseudo-LRU\n".
ListedPolicies == { "LRU", "pseudo-LRU" }

\* ------------------------------------------------------------ call records
NoRun == [ kind |-> "other", way |-> NoWay ]
NoMemo == [ stage |-> "none", list |-> << >>, way |-> NoWay ]

Returned(op, arg, ret) ==
    [ op |-> op, name |-> "", arg |-> arg, ret |-> ret, err |-> "none",
      msg |-> "", built |-> 0, listed |-> {}, node |-> "none" ]

Threw(op, name, arg, err, msg, built) ==
    [ op |-> op, name |-> name, arg |-> arg, ret |-> NoWay, err |-> err,
      msg |-> msg, built |-> built, listed |-> {}, node |-> "none" ]

\* The process is running and the object is usable: no call has failed an
\* assert (which aborts the process) or run into undefined behaviour.
Running == ~ undefined /\ call.err # "assertion failed"

\* No live object: every member is empty.
NoObject ==
    /\ engine' = "none"
    /\ ways' = 0
    /\ lru_list' = << >>
    /\ node_val' = LRU_ctor_vals(0)
    /\ lru_hash' = LRU_ctor_hash(0)
    /\ nodes' = << >>
    /\ undefined' = FALSE
    /\ touchLog' = << >>
    /\ phase' = "other"
    /\ run' = NoRun
    /\ updRun' = << >>
    /\ cleanU' = {}
    /\ cleanT' = {}
    /\ beforeErase' = NoMemo

\* The history of a newly constructed object.
NewHistory ==
    /\ undefined' = FALSE
    /\ touchLog' = << >>
    /\ phase' = "touches"
    /\ run' = [ kind |-> "ctor", way |-> NoWay ]
    /\ updRun' = << >>
    /\ cleanU' = {}
    /\ cleanT' = {}
    /\ beforeErase' = NoMemo

\* The history after touch( way).
TouchHistory(way) ==
    /\ IF phase = "touches" /\ Len(touchLog) < MaxTouches
          THEN touchLog' = Append(touchLog, way) /\ phase' = "touches"
          ELSE touchLog' = << >> /\ phase' = "other"
    /\ run' = [ kind |-> "touch", way |-> way ]
    /\ updRun' = << >>
    /\ beforeErase' = IF beforeErase.stage = "erased" /\ beforeErase.way = way
                         THEN [ beforeErase EXCEPT !.stage = "touched" ]
                         ELSE NoMemo

\* The history after set_to_erase( way).
EraseHistory(way) ==
    /\ touchLog' = << >>
    /\ phase' = "other"
    /\ run' = [ kind |-> "erase", way |-> way ]
    /\ updRun' = << >>
    /\ beforeErase' = IF engine = "LRU"
                         THEN [ stage |-> "erased", list |-> lru_list, way |-> way ]
                         ELSE NoMemo

\* The history after update() returned ret: the first update after a run of
\* touches is judged against them; the last `ways` returns are kept.
UpdateHistory(ret) ==
    /\ IF phase = "touches"
          THEN touchLog' = touchLog /\ phase' = "judged"
          ELSE touchLog' = << >> /\ phase' = "other"
    /\ IF Len(updRun) < ways
          THEN run' = run /\ updRun' = Append(updRun, ret)
          ELSE run' = NoRun /\ updRun' = Append(Tail(updRun), ret)
    /\ beforeErase' = NoMemo

\* The history after a call that ends the object's defined life.
BrokenHistory ==
    /\ touchLog' = << >>
    /\ phase' = "other"
    /\ run' = NoRun
    /\ updRun' = << >>
    /\ beforeErase' = NoMemo

\* ------------------------------------------------------------------ actions
\* create_cache_replacement( "LRU", w): make_unique< LRU>( w).
CreateLRU(name, w) ==
    /\ engine = "none"
    /\ PolicyOf(name) = "LRU"
    /\ engine' = "LRU"
    /\ ways' = w
    /\ lru_list' = LRU_ctor_list(w)
    /\ node_val' = LRU_ctor_vals(w)
    /\ lru_hash' = LRU_ctor_hash(w)
    /\ nodes' = << >>
    /\ call' = [ Returned("create", w, NoWay) EXCEPT !.name = name ]
    /\ NewHistory

\* create_cache_replacement( "Pseudo-LRU", w): make_unique< PseudoLRU>( w).  The
\* member initialiser builds the vector first; the constructor's body then
\* checks is_power_of_two and throws.
CreatePLRU(name, w) ==
    /\ engine = "none"
    /\ PolicyOf(name) = "PseudoLRU"
    /\ IF PLRU_ctor_size(w) > VectorMaxSize
          THEN /\ \E e \in { "std::length_error", "std::bad_alloc" } :
                     call' = Threw("create", name, w, e, "", 0)
               /\ NoObject
          ELSE IF ~ is_power_of_two(w)
          THEN /\ call' = Threw("create", name, w, "CacheReplacementException",
                                "Number of ways must be the power of 2!",
                                PLRU_ctor_size(w))
               /\ NoObject
          ELSE /\ engine' = "PseudoLRU"
               /\ ways' = w
               /\ lru_list' = << >>
               /\ node_val' = LRU_ctor_vals(0)
               /\ lru_hash' = LRU_ctor_hash(0)
               /\ nodes' = PLRU_ctor_nodes(w)
               /\ call' = [ Returned("create", w, NoWay) EXCEPT
                               !.name = name, !.built = PLRU_ctor_size(w) ]
               /\ NewHistory

\* create_cache_replacement with any other name: throws.
CreateUnknown(name, w) ==
    /\ engine = "none"
    /\ PolicyOf(name) = "none"
    /\ call' = [ Threw("create", name, w, "CacheReplacementException",
                       "replacement policy is not defined", 0)
                     EXCEPT !.listed = ListedPolicies ]
    /\ NoObject

\* create_cache_replacement.  It is called while no object is live: one object
\* is followed from its construction on.
Create ==
    \E name \in PolicyNames, w \in WaysArgs :
        \/ CreateLRU(name, w)
        \/ CreatePLRU(name, w)
        \/ CreateUnknown(name, w)

\* LRU::touch( way), way < ways.
LRUTouch ==
    /\ engine = "LRU" /\ Running
    /\ \E way \in 0 .. (ways - 1) :
          /\ lru_list' = LRU_touch(lru_list, lru_hash, way)
          /\ call' = Returned("touch", way, NoWay)
          /\ TouchHistory(way)
    /\ UNCHANGED << engine, ways, node_val, lru_hash, nodes, undefined, cleanU, cleanT >>

\* LRU::set_to_erase( way), way < ways.
LRUSetToErase ==
    /\ engine = "LRU" /\ Running
    /\ \E way \in 0 .. (ways - 1) :
          /\ lru_list' = LRU_set_to_erase(lru_list, lru_hash, way)
          /\ call' = Returned("set_to_erase", way, NoWay)
          /\ EraseHistory(way)
    /\ UNCHANGED << engine, ways, node_val, lru_hash, nodes, undefined, cleanU, cleanT >>

\* The identity of a list node is its address, which the code keeps in
\* lru_hash and never compares or orders.  Node n under the names of nodes a
\* and b exchanged: update() ends with the destroyed node and the new node
\* under each other's name, so that two objects that differ in nothing but
\* the addresses of their nodes are one state.
SwapNodes(n, a, b) == IF n = a THEN b ELSE IF n = b THEN a ELSE n

\* LRU::update() on a list that holds a node: the back node is destroyed, a new
\* node (any storage free at that moment) is inserted at the front, and the
\* hash entry of the way is set to it.
LRUUpdate ==
    /\ engine = "LRU" /\ Running
    /\ Len(lru_list) > 0
    /\ LET back == lru_list[Len(lru_list)]
           lru_elem == LRU_back(lru_list, node_val)
           live == Range(SubSeq(lru_list, 1, Len(lru_list) - 1))
       IN  \E fresh \in NodeIds(ways) \ live :
              LET list1 == LRU_pop_insert(lru_list, fresh)
                  val1 == [ [ node_val EXCEPT ![back] = NoWay ]
                               EXCEPT ![fresh] = lru_elem ]
                  hash1 == LRU_refresh(lru_hash, lru_elem, fresh)
              IN  /\ lru_list' = [ i \in DOMAIN list1 |->
                                     SwapNodes(list1[i], back, fresh) ]
                  /\ node_val' = [ n \in DOMAIN val1 |->
                                     val1[SwapNodes(n, back, fresh)] ]
                  /\ lru_hash' = [ w \in DOMAIN hash1 |->
                                     SwapNodes(hash1[w], back, fresh) ]
                  /\ call' = [ Returned("update", NoWay, lru_elem) EXCEPT
                                  !.node = IF fresh = back THEN "reused"
                                                           ELSE "new" ]
                  /\ UpdateHistory(lru_elem)
    /\ UNCHANGED << engine, ways, nodes, undefined, cleanU, cleanT >>

\* LRU::update() on the empty list of an LRU( 0): back() and pop_back() of an
\* empty std::list are undefined; whatever is returned, the object is lost.
LRUUpdateEmpty ==
    /\ engine = "LRU" /\ Running
    /\ Len(lru_list) = 0
    /\ undefined' = TRUE
    /\ \E r \in WayArgs : call' = Returned("update", NoWay, r)
    /\ UNCHANGED << engine, ways, lru_list, node_val, lru_hash, nodes,
                    touchLog, phase, run, updRun, cleanU, cleanT, beforeErase >>

\* The way arguments lru_hash (or the tree) has no record of.
UntrackedWays(w) == (WayArgs \cup { SIZE_MAX }) \ (0 .. (w - 1))

\* LRU::touch( way) and LRU::set_to_erase( way) with a way lru_hash.find does
\* not find, in a build that keeps assert: assert( lru_it != lru_hash.end())
\* fails and aborts the process before the list is used.
LRUUntrackedAssert ==
    /\ engine = "LRU" /\ Running
    /\ \E op \in { "touch", "set_to_erase" }, way \in UntrackedWays(ways) :
          call' = Threw(op, "", way, "assertion failed",
                        "lru_it != lru_hash.end()", 0)
    /\ BrokenHistory
    /\ UNCHANGED << engine, ways, lru_list, node_val, lru_hash, nodes, undefined,
                    cleanU, cleanT >>

\* What splice can leave of list l when the iterator handed to it was read
\* through lru_hash.end(): the list as it was, or the list with one of its
\* nodes moved, if the bytes read happen to name one.
LRU_splice_outcomes(l, op) ==
    { l } \cup { IF op = "touch" THEN SpliceToBegin(l, n) ELSE SpliceToEnd(l, n) :
                   n \in Range(l) }

\* The same calls in a build with NDEBUG: the assert is compiled out,
\* lru_it->second dereferences lru_hash.end() and splice gets what was read.
\* The behaviour is undefined; the call returns no error.
LRUUntrackedUndefined ==
    /\ engine = "LRU" /\ Running
    /\ \E op \in { "touch", "set_to_erase" }, way \in UntrackedWays(ways) :
          /\ call' = Returned(op, way, NoWay)
          /\ lru_list' \in LRU_splice_outcomes(lru_list, op)
    /\ undefined' = TRUE
    /\ BrokenHistory
    /\ UNCHANGED << engine, ways, node_val, lru_hash, nodes, cleanU, cleanT >>

\* PseudoLRU::touch( way), way < ways.
PLRUTouch ==
    /\ engine = "PseudoLRU" /\ Running
    /\ \E way \in 0 .. (ways - 1) :
          /\ nodes' = PLRU_touch(nodes, way)
          /\ call' = Returned("touch", way, NoWay)
          /\ TouchHistory(way)
          /\ cleanU' = cleanU \cup { way }
          /\ cleanT' = { way }
    /\ UNCHANGED << engine, ways, lru_list, node_val, lru_hash, undefined >>

\* PseudoLRU::touch, auto node = way + nodes.size(), in size_t arithmetic.
PLRU_leaf(ns, way) == (way + Len(ns)) % (2 ^ SizeBits)

\* PseudoLRU::touch, the indices `parent` takes in the loop from `node` up: the
\* elements of nodes the loop reads (and writes, where it reverses).
RECURSIVE PLRU_climb_indices(_)
PLRU_climb_indices(node) ==
    IF node = 0 THEN {}
    ELSE { (node - 1) \div 2 } \cup PLRU_climb_indices((node - 1) \div 2)

\* PseudoLRU::touch, the loop from `node` up, where `parent` may lie past the
\* end of the vector: such an access is to memory that is not the vector's, and
\* the elements of the vector are changed by the in-range iterations alone.
RECURSIVE PLRU_climb_inside(_, _)
PLRU_climb_inside(ns, node) ==
    IF node = 0 THEN ns
    ELSE LET parent == (node - 1) \div 2
         IN  PLRU_climb_inside(
                 IF parent < Len(ns)
                    /\ get_direction_to_prev_node(node) = NodeAt(ns, parent)
                    THEN reverse_node(ns, parent)
                    ELSE ns,
                 parent)

\* PseudoLRU::touch( way) with way >= ways: the code has no check.  The loop
\* starts at a node that is no leaf; where `parent` is past the end of the
\* vector, nodes[parent] is an access out of bounds, which is undefined.  The
\* call returns no error.
PLRUTouchUntracked ==
    /\ engine = "PseudoLRU" /\ Running
    /\ \E way \in UntrackedWays(ways) :
          LET node == PLRU_leaf(nodes, way)
          IN  /\ nodes' = PLRU_climb_inside(nodes, node)
              /\ undefined' = (\E i \in PLRU_climb_indices(node) : i >= Len(nodes))
              /\ call' = Returned("touch", way, NoWay)
    /\ BrokenHistory
    /\ cleanU' = {}
    /\ cleanT' = {}
    /\ UNCHANGED << engine, ways, lru_list, node_val, lru_hash >>

\* PseudoLRU::update().
PLRUUpdate ==
    /\ engine = "PseudoLRU" /\ Running
    /\ LET way == PLRU_victim(nodes)
       IN  /\ nodes' = PLRU_update_nodes(nodes)
           /\ call' = Returned("update", NoWay, way)
           /\ UpdateHistory(way)
           /\ cleanU' = cleanU \cap { way }
           /\ cleanT' = cleanT \cap { way }
    /\ UNCHANGED << engine, ways, lru_list, node_val, lru_hash, undefined >>

\* PseudoLRU::set_to_erase( way), any way: throws, the object stays as it was.
PLRUSetToErase ==
    /\ engine = "PseudoLRU" /\ Running
    /\ \E way \in WayArgs \cup { SIZE_MAX } :
          LET out == PLRU_set_to_erase(nodes, way)
          IN  /\ nodes' = out.nodes
              /\ call' = Threw("set_to_erase", "", way, out.err, out.msg, 0)
              /\ EraseHistory(way)
    /\ UNCHANGED << engine, ways, lru_list, node_val, lru_hash, undefined, cleanU, cleanT >>

Init ==
    /\ engine = "none"
    /\ ways = 0
    /\ lru_list = << >>
    /\ node_val = LRU_ctor_vals(0)
    /\ lru_hash = LRU_ctor_hash(0)
    /\ nodes = << >>
    /\ undefined = FALSE
    /\ call = Returned("none", NoWay, NoWay)
    /\ touchLog = << >>
    /\ phase = "other"
    /\ run = NoRun
    /\ updRun = << >>
    /\ cleanU = {}
    /\ cleanT = {}
    /\ beforeErase = NoMemo

Next ==
    \/ Create
    \/ LRUTouch
    \/ LRUSetToErase
    \/ LRUUpdate
    \/ LRUUpdateEmpty
    \/ LRUUntrackedAssert
    \/ LRUUntrackedUndefined
    \/ PLRUTouch
    \/ PLRUTouchUntracked
    \/ PLRUUpdate
    \/ PLRUSetToErase

Spec == Init /\ [][Next]_vars

\* ------------------------------------------------------------------ claims
AllWays == 0 .. (ways - 1)

\* The position of the last touch( w) in a log of touch calls; 0: never touched.
LastTouch(log, w) ==
    IF \E i \in 1 .. Len(log) : log[i] = w
       THEN CHOOSE i \in 1 .. Len(log) :
                /\ log[i] = w
                /\ \A j \in (i + 1) .. Len(log) : log[j] # w
       ELSE 0

NeverTouched(log) == { w \in AllWays : LastTouch(log, w) = 0 }

\* C1: LRU with ways > 0: after any sequence of touch calls on a newly
\* constructed engine, the next update() returns a way that was never touched
\* if there is one, and otherwise the way whose last touch is older than the
\* last touch of every other way.
C1_LRUVictimIsLeastRecentlyTouched ==
    (engine = "LRU" /\ ways > 0 /\ phase = "judged") =>
        /\ call.op = "update"
        /\ call.ret \in AllWays
        /\ IF NeverTouched(touchLog) # {}
              THEN call.ret \in NeverTouched(touchLog)
              ELSE \A v \in AllWays \ { call.ret } :
                      LastTouch(touchLog, call.ret) < LastTouch(touchLog, v)

\* C1 happens: every way of a 3-way or larger LRU was touched, one of them more
\* than once, and update() has answered.
C1_Witness ==
    /\ engine = "LRU" /\ ways >= 3 /\ phase = "judged"
    /\ NeverTouched(touchLog) = {}
    /\ Len(touchLog) > ways
    /\ call.ret # touchLog[1]

\* C2: LRU with ways > 0: the updates that follow construction, with no touch
\* or set_to_erase between, return 0, 1, ..., ways-1 in this order.
C2_LRUFirstUpdatesInConstructionOrder ==
    (engine = "LRU" /\ ways > 0 /\ run.kind = "ctor") =>
        /\ Len(updRun) <= ways
        /\ \A i \in 1 .. Len(updRun) : updRun[i] = i - 1

\* C2 happens: `ways` updates have followed the construction of a 4-way LRU.
C2_Witness ==
    /\ engine = "LRU" /\ ways = 4 /\ run.kind = "ctor"
    /\ Len(updRun) = ways

\* C3: LRU: after touch( w), the next ways-1 updates (nothing else between)
\* never return w and return every other way exactly once, and the update after
\* them returns w.
C3_LRUTouchedWayIsEvictedLast ==
    (engine = "LRU" /\ run.kind = "touch") =>
        LET k == Len(updRun)
            m == IF k < ways THEN k ELSE ways - 1
        IN  /\ k <= ways
            /\ \A i \in 1 .. m : updRun[i] # run.way
            /\ \A i, j \in 1 .. m : i # j => updRun[i] # updRun[j]
            /\ k >= ways - 1 =>
                   { updRun[i] : i \in 1 .. m } = AllWays \ { run.way }
            /\ k = ways => updRun[ways] = run.way

\* C3 happens: `ways` updates have followed a touch of a 3-way or larger LRU
\* that was not new any more (the touched way was not the one construction
\* would have evicted last).
C3_Witness ==
    /\ engine = "LRU" /\ ways >= 3 /\ run.kind = "touch"
    /\ run.way # ways - 1
    /\ Len(updRun) = ways

\* C4: LRU: the update() that follows set_to_erase( w) returns w.
C4_LRUSetToEraseThenUpdate ==
    (engine = "LRU" /\ run.kind = "erase" /\ Len(updRun) >= 1) =>
        updRun[1] = run.way

\* C4 happens: update() has followed set_to_erase( w) on a 3-way or larger LRU
\* whose list has been reordered before (the ways behind the front are not in
\* the order of construction).
C4_Witness ==
    /\ engine = "LRU" /\ ways >= 3 /\ run.kind = "erase"
    /\ Len(updRun) = 1
    /\ \E i \in 2 .. (ways - 1) :
          node_val[lru_list[i]] < node_val[lru_list[i + 1]]

\* C5: both policies, ways >= 2: two consecutive update() calls never return
\* the same way.
C5_UpdateNeverRepeatsItsVictim ==
    (engine \in { "LRU", "PseudoLRU" } /\ ways >= 2 /\ Len(updRun) >= 2) =>
        updRun[Len(updRun)] # updRun[Len(updRun) - 1]

\* C5 happens: two updates in a row on a 4-way PseudoLRU whose bits are not
\* those of construction.
C5_Witness ==
    /\ engine = "PseudoLRU" /\ ways = 4 /\ run.kind = "touch"
    /\ Len(updRun) = 2

\* C6: PseudoLRU construction succeeds if ways is a power of two and fails
\* with a CacheReplacementException for every other value of ways.
C6_PLRUConstructionChecksPowerOfTwo ==
    (call.op = "create" /\ call.name = "Pseudo-LRU") =>
        IF is_power_of_two(call.arg)
           THEN engine = "PseudoLRU" /\ ways = call.arg /\ call.err = "none"
           ELSE engine = "none" /\ call.err = "CacheReplacementException"

\* C7: PseudoLRU: the first update() after construction returns way 0.
C7_PLRUFirstUpdateReturnsWayZero ==
    (engine = "PseudoLRU" /\ run.kind = "ctor" /\ Len(updRun) >= 1) =>
        updRun[1] = 0

\* C7 happens: update() has followed the construction of a 4-way PseudoLRU.
C7_Witness ==
    /\ engine = "PseudoLRU" /\ ways = 4 /\ run.kind = "ctor"
    /\ Len(updRun) = 1
    /\ call.op = "update"

\* A step of PseudoLRU::update() on an engine of two ways or more.
PLRUUpdateStep ==
    /\ engine = "PseudoLRU" /\ engine' = "PseudoLRU"
    /\ ways >= 2
    /\ call'.op = "update"

\* C8, as claimed: PseudoLRU, ways >= 2: after touch( w), update() does not
\* return w until update() has returned another way.
C8_NoReturnUntilOtherUpdated ==
    [][ PLRUUpdateStep => call'.ret \notin cleanU ]_vars

\* C8, amended: PseudoLRU, ways >= 2: after touch( w), update() does not
\* return w until another way has been touched, by touch() or by the touch
\* that ends update(); the update() right after touch( w) returns another way.
C8_NoReturnUntilOtherTouched ==
    [][ PLRUUpdateStep => call'.ret \notin cleanT ]_vars

\* C8 happens: on a 4-way PseudoLRU, update() has followed touch( w) and has
\* returned a way that an earlier touch had named.
C8_Witness ==
    /\ engine = "PseudoLRU" /\ ways = 4 /\ run.kind = "touch"
    /\ call.op = "update"
    /\ Len(updRun) = 1
    /\ updRun[1] # run.way
    /\ cleanU # {}

\* C9: PseudoLRU: set_to_erase( w) throws for every w, in range or not, and
\* leaves the bits as they were.
C9_PLRUSetToEraseAlwaysThrows ==
    engine = "PseudoLRU" =>
        /\ \A w \in WayArgs \cup { SIZE_MAX } :
              /\ PLRU_set_to_erase(nodes, w).err = "CacheReplacementException"
              /\ PLRU_set_to_erase(nodes, w).msg =
                     "PLRU does not support inverted access"
              /\ PLRU_set_to_erase(nodes, w).nodes = nodes
        /\ call.op = "set_to_erase" =>
              /\ call.err = "CacheReplacementException"
              /\ call.ret = NoWay

\* C9 happens: set_to_erase of a way that is out of range has thrown on a
\* 4-way PseudoLRU some of whose bits are Right.
C9_Witness ==
    /\ engine = "PseudoLRU" /\ ways = 4
    /\ call.op = "set_to_erase" /\ call.arg >= ways
    /\ call.err = "CacheReplacementException"
    /\ \E i \in 1 .. Len(nodes) : nodes[i] = Right

\* C10, as claimed: the factory returns an LRU engine exactly when the name is
\* "LRU", a PseudoLRU engine exactly when it is "Pseudo-LRU", and throws a
\* CacheReplacementException for every other name (stated for ways > 0, the
\* way counts the interface admits).
C10_FactoryByNameAlone ==
    (call.op = "create" /\ call.arg > 0) =>
        /\ engine = "LRU" <=> call.name = "LRU"
        /\ engine = "PseudoLRU" <=> call.name = "Pseudo-LRU"
        /\ call.name \notin { "LRU", "Pseudo-LRU" } =>
              engine = "none" /\ call.err = "CacheReplacementException"

\* C10, amended: ... a PseudoLRU engine exactly when the name is "Pseudo-LRU"
\* and ways is a power of two ...
C10_FactoryByNameAndWays ==
    call.op = "create" =>
        /\ engine = "LRU" <=> call.name = "LRU"
        /\ engine = "PseudoLRU" <=>
              (call.name = "Pseudo-LRU" /\ is_power_of_two(call.arg))
        /\ engine # "none" => ways = call.arg /\ call.err = "none"
        /\ call.name \notin { "LRU", "Pseudo-LRU" } =>
              engine = "none" /\ call.err = "CacheReplacementException"

\* C10 happens: the factory has refused a name that differs from an accepted
\* one only in the case of a letter.
C10_Witness ==
    /\ call.op = "create" /\ call.name = "pseudo-LRU" /\ call.arg = 4
    /\ engine = "none"
    /\ call.err = "CacheReplacementException"

\* The policy names the factory accepts: those it constructs an engine for.
AcceptedPolicies == { n \in PolicyNames \cup call.listed : PolicyOf(n) # "none" }

\* C11: when the factory refuses a name, the names its message lists are
\* exactly the names it accepts: each listed name, handed back as written,
\* constructs an engine.
C11_MessageListsAcceptedNames ==
    (call.op = "create" /\ PolicyOf(call.name) = "none") =>
        /\ call.err = "CacheReplacementException"
        /\ call.listed = AcceptedPolicies
        /\ \A n \in call.listed : PolicyOf(n) # "none"

\* A step of LRU::touch or LRU::set_to_erase with a way that is not tracked.
LRUUntrackedStep ==
    /\ engine = "LRU" /\ engine' = "LRU"
    /\ ways > 0
    /\ call'.op \in { "touch", "set_to_erase" }
    /\ call'.arg \notin AllWays

\* C12: LRU: touch( w) or set_to_erase( w) with a way that is not tracked
\* fails with an internal-consistency error at the call and leaves the list
\* and the hash as they were.
C12_LRUUntrackedWayFailsCleanly ==
    [][ LRUUntrackedStep =>
            /\ call'.err = "assertion failed"
            /\ ~ undefined'
            /\ lru_list' = lru_list
            /\ lru_hash' = lru_hash
            /\ node_val' = node_val ]_vars

\* The indices of the bits of the tree: nodes[0] .. nodes[ways - 2].
TreeIndices == 0 .. (ways - 2)

\* C13: PseudoLRU: touch( w) with w >= ways raises an internal-consistency
\* error at the call and accesses no bit outside nodes[0 .. ways-2].
C13_PLRUUntrackedTouchFails ==
    (engine = "PseudoLRU" /\ call.op = "touch" /\ call.arg \notin AllWays) =>
        /\ call.err # "none"
        /\ PLRU_climb_indices(PLRU_leaf(nodes, call.arg)) \subseteq TreeIndices

\* The ways stored in the nodes of the list, front first.
ListedWays == [ i \in 1 .. Len(lru_list) |-> node_val[lru_list[i]] ]

\* C14: LRU: in every state reached by touch, set_to_erase and update with
\* ways in range, the list has `ways` nodes and holds every way 0..ways-1
\* exactly once.
C14_LRUListIsPermutationOfWays ==
    (engine = "LRU" /\ ~ undefined) =>
        /\ Len(lru_list) = ways
        /\ \A w \in AllWays :
               Cardinality({ i \in 1 .. Len(lru_list) : ListedWays[i] = w }) = 1
        /\ \A i \in 1 .. Len(lru_list) : ListedWays[i] \in AllWays

\* C14 happens: a 4-way LRU after set_to_erase and update, its list no longer
\* in the order of construction.
C14_Witness ==
    /\ engine = "LRU" /\ ways = 4 /\ ~ undefined
    /\ run.kind = "erase" /\ Len(updRun) = 2
    /\ ListedWays # << 3, 2, 1, 0 >>

\* C15: LRU: lru_hash has exactly one entry for every way 0..ways-1, and the
\* entry names a node that is in the list and holds that way; so also after
\* update() has destroyed the back node and inserted a new front node.
C15_LRUHashMatchesList ==
    (engine = "LRU" /\ ~ undefined) =>
        /\ DOMAIN lru_hash = AllWays
        /\ \A w \in AllWays :
              /\ lru_hash[w] \in Range(lru_list)
              /\ node_val[lru_hash[w]] = w
        /\ \A n \in DOMAIN node_val :
              n \notin Range(lru_list) => node_val[n] = NoWay

\* C15 happens: update() of a 3-way or larger LRU has put the way it returned
\* into a node other than the one it destroyed, now the front node.
C15_Witness ==
    /\ engine = "LRU" /\ ways >= 3 /\ ~ undefined
    /\ call.op = "update" /\ call.node = "new"
    /\ lru_list[1] = lru_hash[call.ret]
    /\ Len(updRun) >= 2

\* List l without node n, the other nodes in their order.
Without(l, n) == SelectSeq(l, LAMBDA x : x # n)

\* C16: LRU: set_to_erase( w) followed by touch( w), no update() between,
\* leaves the list as touch( w) alone would have left it: w at the front, the
\* other ways in their previous order; with ways >= 2 the next update() does
\* not return w.
C16_LRUTouchUndoesSetToErase ==
    (engine = "LRU" /\ beforeErase.stage = "touched") =>
        LET w == beforeErase.way
            before == beforeErase.list
        IN  /\ lru_list = LRU_touch(before, lru_hash, w)
            /\ node_val[lru_list[1]] = w
            /\ Tail(lru_list) = Without(before, lru_hash[w])
            /\ ways >= 2 => LRU_back(lru_list, node_val) # w

\* C16 happens: on a 3-way or larger LRU, set_to_erase( w) then touch( w) of
\* a way that was neither at the front nor at the back of the list.
C16_Witness ==
    /\ engine = "LRU" /\ ways >= 3 /\ beforeErase.stage = "touched"
    /\ call.op = "touch" /\ call.arg = beforeErase.way
    /\ beforeErase.list[1] # lru_hash[beforeErase.way]
    /\ beforeErase.list[ways] # lru_hash[beforeErase.way]

\* C17: PseudoLRU construction with a ways that is no power of two raises the
\* configuration error before any state is built: no vector of ways - 1
\* elements is built (or asked for) first, ways = 0 included.
C17_PLRUChecksBeforeBuilding ==
    (call.op = "create" /\ call.name = "Pseudo-LRU"
        /\ ~ is_power_of_two(call.arg)) =>
        /\ call.err = "CacheReplacementException"
        /\ call.built = 0

\* Tree node n lies in the subtree whose root is node a (children of n are
\* 2n+1 and 2n+2).
RECURSIVE InSubtree(_, _)
InSubtree(a, n) ==
    IF n = a THEN TRUE
    ELSE IF n < a THEN FALSE
    ELSE InSubtree(a, (n - 1) \div 2)

\* The tree index of the leaf of way w.
LeafOf(w) == w + (ways - 1)

\* The child the bit of internal node a points to in the bits ns.
PointsTo(ns, a) == IF ns[a + 1] = Left THEN 2 * a + 1 ELSE 2 * a + 2

\* The bits ns, all on the path from the root to leaf, point away from leaf.
PointsAway(ns, leaf) ==
    \A a \in TreeIndices :
        InSubtree(a, leaf) => ~ InSubtree(PointsTo(ns, a), leaf)

\* C18: PseudoLRU touch( w), w < ways, from any reachable state: afterwards
\* every internal node on the path from the root to the leaf of w points to the
\* child that does not lead to w (its bit was flipped exactly when it pointed
\* toward w), and the bits of all other internal nodes are unchanged.
C18_PLRUTouchTurnsPathAway ==
    (engine = "PseudoLRU" /\ ~ undefined) =>
        /\ \A w \in AllWays :
              LET after == PLRU_touch(nodes, w)
              IN  /\ Len(after) = Len(nodes)
                  /\ PointsAway(after, LeafOf(w))
                  /\ \A a \in TreeIndices :
                        IF InSubtree(a, LeafOf(w))
                           THEN after[a + 1] # nodes[a + 1] <=>
                                    InSubtree(PointsTo(nodes, a), LeafOf(w))
                           ELSE after[a + 1] = nodes[a + 1]
        /\ (call.op = "touch" /\ call.arg \in AllWays) =>
              PointsAway(nodes, LeafOf(call.arg))

\* C18 happens: touch( 2) on a 4-way PseudoLRU has left the bit of node 1,
\* which is not on the path to way 2, at Right.
C18_Witness ==
    /\ engine = "PseudoLRU" /\ ways = 4 /\ ~ undefined
    /\ call.op = "touch" /\ call.arg = 2
    /\ NodeAt(nodes, 1) = Right
    /\ NodeAt(nodes, 0) = Left /\ NodeAt(nodes, 2) = Right

\* PseudoLRU::update called k times in a row on the bits ns: the bits left
\* behind and the ways returned, in order.
RECURSIVE PLRU_updates(_, _)
PLRU_updates(ns, k) ==
    IF k = 0 THEN [ nodes |-> ns, rets |-> << >> ]
    ELSE LET rest == PLRU_updates(PLRU_update_nodes(ns), k - 1)
         IN  [ nodes |-> rest.nodes,
               rets  |-> << PLRU_victim(ns) >> \o rest.rets ]

\* C19: PseudoLRU, from any reachable bit configuration: `ways` consecutive
\* update() calls with no touch between them return every way 0..ways-1 exactly
\* once, and after them the tree bits are what they were before the first.
C19_PLRUUpdateCycle ==
    (engine = "PseudoLRU" /\ ~ undefined) =>
        /\ LET r == PLRU_updates(nodes, ways)
           IN  /\ r.nodes = nodes
               /\ Len(r.rets) = ways
               /\ Range(r.rets) = AllWays
        /\ Len(updRun) = ways => Range(updRun) = AllWays

\* C19 happens: four updates in a row on a 4-way PseudoLRU, begun from bits
\* other than the constructed ones (the first of them did not return way 0).
C19_Witness ==
    /\ engine = "PseudoLRU" /\ ways = 4 /\ ~ undefined
    /\ Len(updRun) = 4 /\ updRun[1] # 0
    /\ call.op = "update"

\* PseudoLRU::update, the loop from `node` down to a leaf: the indices at which
\* get_next_node reads the vector.
RECURSIVE PLRU_descend_indices(_, _)
PLRU_descend_indices(ns, node) ==
    IF node < Len(ns)
       THEN { node } \cup PLRU_descend_indices(ns, get_next_node(ns, node))
       ELSE {}

\* PseudoLRU::update, the loop from `node` down to a leaf: the number of times
\* its body runs.
RECURSIVE PLRU_descend_steps(_, _)
PLRU_descend_steps(ns, node) ==
    IF node < Len(ns)
       THEN 1 + PLRU_descend_steps(ns, get_next_node(ns, node))
       ELSE 0

\* The base-2 logarithm of a power of two.
RECURSIVE Log2(_)
Log2(n) == IF n <= 1 THEN 0 ELSE 1 + Log2(n \div 2)

\* C20: PseudoLRU bounds safety for power-of-two ways >= 1: in every reachable
\* state the bit array has exactly ways-1 entries, update() ends after exactly
\* log2(ways) descent steps and returns a way in [0, ways), and every index at
\* which update() and touch( w), w < ways, read or write the bit array lies in
\* [0, ways-2]; with ways = 1 no bit is accessed and update() returns 0.
C20_PLRUStaysInBounds ==
    (engine = "PseudoLRU" /\ ~ undefined) =>
        /\ ways >= 1 /\ is_power_of_two(ways)
        /\ Len(nodes) = ways - 1
        /\ PLRU_descend_steps(nodes, 0) = Log2(ways)
        /\ PLRU_descend_indices(nodes, 0) \subseteq TreeIndices
        /\ PLRU_victim(nodes) \in AllWays
        /\ \A w \in AllWays :
              PLRU_climb_indices(PLRU_leaf(nodes, w)) \subseteq TreeIndices
        /\ ways = 1 =>
              /\ PLRU_descend_indices(nodes, 0) = {}
              /\ PLRU_climb_indices(PLRU_leaf(nodes, 0)) = {}
              /\ PLRU_victim(nodes) = 0
        /\ (call.op = "update" /\ call.err = "none") => call.ret \in AllWays

\* C20 happens: update() on a 4-way PseudoLRU has walked two levels down, past
\* a root bit set to Right, and returned way 3.
C20_Witness ==
    /\ engine = "PseudoLRU" /\ ways = 4 /\ ~ undefined
    /\ call.op = "update" /\ call.ret = 3
    /\ Cardinality(PLRU_descend_indices(nodes, 0)) = 2

====
